---- MODULE Spec2Model ----
(***************************************************************************)
(* Model of static/js/app.js, the client script of the Net Rate            *)
(* Decomposition Tool: tracked-items store over localStorage, alert        *)
(* banners, loading spinners, the waterfall chart and apiRequest.           *)
(*                                                                         *)
(* JavaScript values are pairs <<type, text>> so that strict (in)equality  *)
(* between values of different types is decided the way === decides it.    *)
(***************************************************************************)
EXTENDS Integers, Sequences, FiniteSets

VARIABLES
    localStorage,   \* value stored under the key 'trackedItems' (Null when absent)
    clock,          \* Date.now(), in milliseconds
    log,            \* the last store call: its arguments, what it read and returned
    tabPc,          \* per tab: position inside addTrackedItem / removeTrackedItem
    tabOp,          \* per tab: the call in progress
    tabItems,       \* per tab: the local array (items / filtered)
    tabSnap,        \* per tab: what getItem returned to this tab
    events,         \* the tabs' storage accesses in order: <<tab, "read" | "write">>
    elClass,        \* per element: whether its classList holds 'loading'
    elChildren,     \* per element: its child nodes, first child first
    loadCall,       \* the last setLoadingState call
    container,      \* children of the page's .container, first child first
    banners,        \* the alert divs created so far, with their timers
    requests,       \* per apiRequest call: where it stands and how it settled
    charts,         \* the Chart instances created so far
    currentChart,   \* the module-level currentChart: index into charts, 0 for null
    chartCall,      \* the last createWaterfallChart call
    input           \* the RateDecomposition handed to createWaterfallChart

storeVars == <<localStorage, clock, log>>
tabVars == <<tabPc, tabOp, tabItems, tabSnap, events>>
loadVars == <<elClass, elChildren, loadCall>>
alertVars == <<container, banners>>
fetchVars == <<requests>>
chartVars == <<charts, currentChart, chartCall, input>>
vars ==
    <<localStorage, clock, log, tabPc, tabOp, tabItems, tabSnap, events, elClass,
      elChildren, loadCall, container, banners, requests, charts, currentChart,
      chartCall, input>>

----------------------------------------------------------------------------
(* Bounds *)
MaxClock == 2
MaxItems == 3

----------------------------------------------------------------------------
(* JavaScript values *)
Str(s) == <<"string", s>>
Num(s) == <<"number", s>>
Undefined == <<"undefined", "undefined">>
TypeOf(v) == v[1]
StrictEq(a, b) == a = b

Min(a, b) == IF a < b THEN a ELSE b

Digit(d) ==
    CASE d = 0 -> "0" [] d = 1 -> "1" [] d = 2 -> "2" [] d = 3 -> "3"
      [] d = 4 -> "4" [] d = 5 -> "5" [] d = 6 -> "6" [] d = 7 -> "7"
      [] d = 8 -> "8" [] d = 9 -> "9"

RECURSIVE toString(_)
\* Number.prototype.toString() of a non-negative integer: its decimal digits.
toString(n) == IF n < 10 THEN Digit(n) ELSE toString(n \div 10) \o Digit(n % 10)

Pad2(n) == Digit((n \div 10) % 10) \o Digit(n % 10)
Pad3(n) == Digit((n \div 100) % 10) \o Pad2(n)

\* Date.prototype.toISOString() of a time ms within the first day of the epoch.
ToISOString(ms) ==
    "1970-01-01T" \o Pad2((ms \div 3600000) % 24) \o ":" \o Pad2((ms \div 60000) % 60)
        \o ":" \o Pad2((ms \div 1000) % 60) \o "." \o Pad3(ms % 1000) \o "Z"

----------------------------------------------------------------------------
(* JSON over arrays of flat objects *)
Null == [kind |-> "null"]

\* JSON.stringify drops the properties whose value is undefined.
SerializeObject(o) == [f \in {g \in DOMAIN o : o[g] # Undefined} |-> o[f]]

JsonStringify(items) ==
    [kind |-> "text", json |-> [i \in 1..Len(items) |-> SerializeObject(items[i])]]

JsonParse(text) == text.json

----------------------------------------------------------------------------
(* Tracked-items store *)

\* Items the callers pass to addTrackedItem; some carry their own id/dateAdded.
CallerItems ==
    { [name |-> Str("x")],
      [name |-> Str("y"), id |-> Str("custom")],
      [name |-> Str("z"), id |-> Num("7"), dateAdded |-> Str("bogus"), note |-> Undefined] }

\* Ids the callers pass to removeTrackedItem.
RemoveArgs ==
    {Str(toString(t)) : t \in 0..MaxClock} \cup {Num("0"), Str("custom"), Undefined}

ReadItems(stored) == IF stored # Null THEN JsonParse(stored) ELSE <<>>

getTrackedItems == ReadItems(localStorage)

NoIdStamp(item, now, date) ==
    [f \in DOMAIN item \cup {"id", "dateAdded"} |->
        IF f = "id" THEN Num(toString(now))
        ELSE IF f = "dateAdded" THEN Str(ToISOString(date))
        ELSE item[f]]

\* { ...item, id: Date.now().toString(), dateAdded: new Date().toISOString() }
Stamp(item, now, date) ==
    [f \in DOMAIN item \cup {"id", "dateAdded"} |->
        IF f = "id" THEN Str(toString(now))
        ELSE IF f = "dateAdded" THEN Str(ToISOString(date))
        ELSE item[f]]

HasId(o) == "id" \in DOMAIN o
IdOf(o) == IF HasId(o) THEN o["id"] ELSE Undefined

KeepEqual(items, id) == SelectSeq(items, LAMBDA it : StrictEq(IdOf(it), id))

\* items.filter(item => item.id !== id)
Filter(items, id) == SelectSeq(items, LAMBDA it : ~StrictEq(IdOf(it), id))

\* No call yet.  absent: getItem returned null; prevFresh: the call before this one
\* was an addTrackedItem that found the store absent.
NoCall ==
    [op |-> "none", arg |-> Undefined, absent |-> TRUE, prevFresh |-> FALSE,
     before |-> <<>>, ret |-> <<>>]

FreshAdd(call) == call.op = "add" /\ call.absent

addTrackedItem(item) ==
    /\ Len(getTrackedItems) < MaxItems
    /\ \E date \in clock..Min(clock + 1, MaxClock) :
         LET items == Append(getTrackedItems, Stamp(item, clock, date)) IN
         /\ localStorage' = JsonStringify(items)
         /\ clock' = date
         /\ log' = [op |-> "add", arg |-> item, absent |-> localStorage = Null,
                  prevFresh |-> FreshAdd(log),
                  before |-> getTrackedItems, ret |-> items]

removeTrackedItem(id) ==
    /\ LET filtered == Filter(getTrackedItems, id) IN
         /\ localStorage' = JsonStringify(filtered)
         /\ log' = [op |-> "remove", arg |-> id, absent |-> localStorage = Null,
                  prevFresh |-> FreshAdd(log),
                  before |-> getTrackedItems, ret |-> filtered]
    /\ UNCHANGED <<clock>>

Tick ==
    /\ clock < MaxClock
    /\ clock' = clock + 1
    /\ UNCHANGED <<localStorage, log>>

StoreInit ==
    /\ localStorage = Null
    /\ clock = 0
    /\ log = NoCall

Tabs == {1, 2}

NoTabCall == [op |-> "none", id |-> Undefined, rec |-> [name |-> Undefined]]

TabsIdle ==
    /\ tabPc = [t \in Tabs |-> "idle"]
    /\ tabOp = [t \in Tabs |-> NoTabCall]
    /\ tabItems = [t \in Tabs |-> <<>>]
    /\ tabSnap = [t \in Tabs |-> Null]
    /\ events = <<>>

----------------------------------------------------------------------------
(* Two tabs on the same storage key.  Each tab runs its call synchronously, *)
(* but the two tabs are separate event loops: their getItem and setItem     *)
(* accesses to the shared storage interleave.                               *)
\* What the call makes of the array it read.
ApplyCall(items, call) ==
    IF call.op = "add" THEN Append(items, call.rec) ELSE Filter(items, call.id)

\* addTrackedItem up to items.push: getItem, parse, push the stamped record.
TabAddRead(t, item) ==
    /\ tabPc[t] = "idle"
    /\ Len(getTrackedItems) < MaxItems
    /\ \E date \in clock..Min(clock + 1, MaxClock) :
         LET call == [op |-> "add", id |-> Undefined, rec |-> Stamp(item, clock, date)] IN
         /\ tabOp' = [tabOp EXCEPT ![t] = call]
         /\ tabItems' = [tabItems EXCEPT ![t] = ApplyCall(getTrackedItems, call)]
         /\ clock' = date
    /\ tabSnap' = [tabSnap EXCEPT ![t] = localStorage]
    /\ tabPc' = [tabPc EXCEPT ![t] = "write"]
    /\ events' = Append(events, <<t, "read">>)
    /\ UNCHANGED <<localStorage, log>>

\* removeTrackedItem up to items.filter: getItem, parse, filter.
TabRemoveRead(t, id) ==
    /\ tabPc[t] = "idle"
    /\ LET call == [op |-> "remove", id |-> id, rec |-> [name |-> Undefined]] IN
         /\ tabOp' = [tabOp EXCEPT ![t] = call]
         /\ tabItems' = [tabItems EXCEPT ![t] = ApplyCall(getTrackedItems, call)]
    /\ tabSnap' = [tabSnap EXCEPT ![t] = localStorage]
    /\ tabPc' = [tabPc EXCEPT ![t] = "write"]
    /\ events' = Append(events, <<t, "read">>)
    /\ UNCHANGED <<localStorage, clock, log>>

MergedValue(t) == JsonStringify(ApplyCall(getTrackedItems, tabOp[t]))

\* The value handed to setItem: the tab's own array, serialized.
WrittenValue(t) == JsonStringify(tabItems[t])

\* localStorage.setItem('trackedItems', ...) and the return.
TabWrite(t) ==
    /\ tabPc[t] = "write"
    /\ localStorage' = WrittenValue(t)
    /\ tabPc' = [tabPc EXCEPT ![t] = "done"]
    /\ events' = Append(events, <<t, "write">>)
    /\ UNCHANGED <<clock, log, tabOp, tabItems, tabSnap>>

\* Stores an earlier session can have left behind.
StoresLeft ==
    { Null,
      JsonStringify(<<Stamp([name |-> Str("x")], 0, 0)>>),
      JsonStringify(<<Stamp([name |-> Str("x")], 0, 0), Stamp([name |-> Str("y")], 1, 1)>>) }

TabsInit ==
    /\ localStorage \in StoresLeft
    /\ clock = 1
    /\ log = NoCall

----------------------------------------------------------------------------
(* Loading state *)
NumElements == 2
MaxChildren == 4

Elements == 1..NumElements

SpinnerCount(el) == Len(SelectSeq(elChildren[el], LAMBDA n : n = "spinner"))

RECURSIVE RemoveFirst(_, _)
\* The children without the first node equal to n.
RemoveFirst(children, n) ==
    IF children = <<>> THEN <<>>
    ELSE IF Head(children) = n THEN Tail(children)
    ELSE <<Head(children)>> \o RemoveFirst(Tail(children), n)

\* element.insertBefore(node, element.firstChild)
InsertFirst(children, node) == <<node>> \o children

setLoadingState(element, isLoading) ==
    /\ IF isLoading
       THEN /\ Len(elChildren[element]) < MaxChildren
            /\ elClass' = [elClass EXCEPT ![element] = TRUE]
            /\ elChildren' =
                 [elChildren EXCEPT ![element] = InsertFirst(@, "spinner")]
       ELSE /\ elClass' = [elClass EXCEPT ![element] = FALSE]
            /\ elChildren' = [elChildren EXCEPT ![element] = RemoveFirst(@, "spinner")]
    /\ loadCall' = [element |-> element, isLoading |-> isLoading]

LoadInit ==
    /\ elClass = [el \in Elements |-> FALSE]
    /\ elChildren \in [Elements -> {<<>>, <<"text">>}]
    /\ loadCall = [element |-> 0, isLoading |-> FALSE]

----------------------------------------------------------------------------
(* Alert banners *)
MaxBanners == 3
ErrorDelay == 5000
SuccessDelay == 3000

FetchFailedMessage == "Failed to load data. Please try again."
UnexpectedMessage == "An unexpected error occurred. Please refresh the page."

\* Who calls showError: the window 'error' listener, or apiRequest call r.
ByWindow == 0

InContainer(b) == \E k \in 1..Len(container) : container[k] = b

AppendChild(children, node) == children \o <<node>>

\* container.insertBefore(alertDiv, container.firstChild)
InsertAlert(children, node) == InsertFirst(children, node)

\* createElement, insertBefore and setTimeout of showError / showSuccess.
ShowAlert(kind, message, delay, by) ==
    /\ Len(banners) < MaxBanners
    /\ banners' = Append(banners, [kind |-> kind, message |-> message, delay |-> delay,
                                   timer |-> "pending", dismissed |-> FALSE,
                                   by |-> by])
    /\ container' = InsertAlert(container, Len(banners) + 1)

showError(message, by) == ShowAlert("alert-danger", message, ErrorDelay, by)

showSuccess(message) == ShowAlert("alert-success", message, SuccessDelay, ByWindow)

\* The user clicks the banner's btn-close (data-bs-dismiss="alert").
Dismiss(b) ==
    /\ b \in 1..Len(banners)
    /\ InContainer(b)
    /\ container' = RemoveFirst(container, b)
    /\ banners' = [banners EXCEPT ![b].dismissed = TRUE]

\* Timers set earlier with a delay no longer than b's run before b's.
Due(b) ==
    /\ b \in 1..Len(banners)
    /\ banners[b].timer = "pending"
    /\ \A a \in 1..(b - 1) :
           banners[a].delay <= banners[b].delay => banners[a].timer = "fired"

\* The setTimeout callback: if (alertDiv.parentNode) alertDiv.remove()
TimerFire(b) ==
    /\ Due(b)
    /\ banners' = [banners EXCEPT ![b].timer = "fired"]
    /\ container' = IF InContainer(b) THEN RemoveFirst(container, b) ELSE container

\* The page content sits in the container before any banner; it is node 0.
AlertInit ==
    /\ container = <<0>>
    /\ banners = <<>>

----------------------------------------------------------------------------
(* apiRequest *)
MaxRequests == 2

Requests == 1..MaxRequests

Statuses == {200, 204, 299, 300, 404, 500}

\* response.ok
Ok(status) == 200 <= status /\ status <= 299

Garbage(text) == [kind |-> "text", garbage |-> text]

Bodies ==
    { JsonStringify(<<>>), JsonStringify(<<[name |-> Str("x")]>>),
      Garbage(""), Garbage("<html>") }

\* Whether JSON.parse accepts the text.
JsonValid(text) == "json" \in DOMAIN text

NoError == [name |-> "none", message |-> ""]
NoValue == [kind |-> "undefined"]

HttpError(status) ==
    [name |-> "Error", message |-> "HTTP error! status: " \o toString(status)]
NetworkError == [name |-> "TypeError", message |-> "Failed to fetch"]
ParseError == [name |-> "SyntaxError", message |-> "Unexpected token"]

Idle == [pc |-> "idle", body |-> NoValue, thrown |-> NoError, reason |-> NoError,
         value |-> NoValue]

\* How the call settles after catch (error): the promise rejects with error.
Swallowed(req, error) == [req EXCEPT !.pc = "resolved", !.thrown = error]

Rethrown(req, error) == [req EXCEPT !.pc = "rejected", !.thrown = error, !.reason = error]

\* catch (error) { console.error(...); showError(...); throw error; }
Catch(r, error) ==
    /\ showError(FetchFailedMessage, r)
    /\ requests' = [requests EXCEPT ![r] = Rethrown(@, error)]

\* apiRequest(url) up to await fetch(url)
apiRequest(r) ==
    /\ requests[r].pc = "idle"
    /\ requests' = [requests EXCEPT ![r].pc = "fetch"]
    /\ UNCHANGED alertVars

\* fetch rejects: a network-level failure
FetchRejects(r) ==
    /\ requests[r].pc = "fetch"
    /\ Catch(r, NetworkError)

\* fetch resolves with a response; !response.ok throws, else await response.json()
FetchResponds(r, status, body) ==
    /\ requests[r].pc = "fetch"
    /\ IF ~Ok(status)
       THEN Catch(r, HttpError(status))
       ELSE /\ requests' = [requests EXCEPT ![r].pc = "json", ![r].body = body]
            /\ UNCHANGED alertVars

\* response.json() settles: the parsed body, a parse failure, or a failed body read
JsonSettles(r, readFails) ==
    /\ requests[r].pc = "json"
    /\ IF readFails THEN Catch(r, NetworkError)
       ELSE IF ~JsonValid(requests[r].body) THEN Catch(r, ParseError)
       ELSE /\ requests' = [requests EXCEPT ![r].pc = "resolved",
                                            ![r].value = JsonParse(requests[r].body)]
            /\ UNCHANGED alertVars

FetchInit == requests = [r \in Requests |-> Idle]

----------------------------------------------------------------------------
(* Waterfall chart *)
NumCanvases == 2
MaxCharts == 3
DriverSize == 1
StartMax == 1
EndSkew == 1

\* Canvas ids the callers pass; 0 is the id of no element of the page.
Canvases == 1..NumCanvases
CanvasIds == 0..NumCanvases

AnchorColor == "#007bff"
IncreaseColor == "#28a745"
DecreaseColor == "#dc3545"

labels ==
    << "Start Rate", "Payer Mix", "Allowed Rates", "Units/Visit", "CPT Mix",
       "Copay Collection", "Write-offs/Denials", "Operational", "Documentation",
       "End Rate" >>

\* The values array; TLA+ sequences start at 1, so values[i] of the code is Values(data)[i + 1].
Values(data) ==
    << data.start_net_rate,
       data.drivers.payer_mix,
       data.drivers.allowed_rates,
       data.drivers.units_per_visit,
       data.drivers.cpt_mix,
       data.drivers.copay_leakage,
       data.drivers.writeoffs_denials,
       data.drivers.operational_leakage,
       data.drivers.documentation_issues,
       data.end_net_rate >>

PositiveOnly(change) == IF change > 0 THEN IncreaseColor ELSE DecreaseColor

\* change >= 0 ? '#28a745' : '#dc3545'
BarColor(change) == IF change >= 0 THEN IncreaseColor ELSE DecreaseColor

ChangeOnly(cumulative, change) == change

\* const newCumulative = cumulative + change
NewCumulative(cumulative, change) == cumulative + change

RECURSIVE Loop(_, _, _, _)
\* for (let i = 1; i < values.length - 1; i++) { ... }
Loop(values, i, cumulative, chartData) ==
    IF i < Len(values) - 1
    THEN LET change == values[i + 1]
             newCumulative == NewCumulative(cumulative, change)
         IN  Loop(values, i + 1, newCumulative,
                  Append(chartData, [x |-> i, y |-> <<cumulative, newCumulative>>,
                                     backgroundColor |-> BarColor(change)]))
    ELSE chartData

\* The chartData array of createWaterfallChart.
ChartData(data) ==
    LET first == <<[x |-> 0, y |-> <<0, data.start_net_rate>>,
                    backgroundColor |-> AnchorColor]>>
        bars == Loop(Values(data), 1, data.start_net_rate, first)
    IN  Append(bars, [x |-> Len(labels) - 1, y |-> <<0, data.end_net_rate>>,
                      backgroundColor |-> AnchorColor])

KeepAlive(cs, current) == cs

\* if (currentChart) currentChart.destroy()
Destroy(cs, current) ==
    IF current # 0 THEN [cs EXCEPT ![current].destroyed = TRUE] ELSE cs

createWaterfallChart(canvasId, data) ==
    IF canvasId \notin Canvases
    THEN \* getElementById returns null: .getContext throws, nothing else runs
         /\ chartCall' = [canvasId |-> canvasId, outcome |-> "TypeError"]
         /\ UNCHANGED <<charts, currentChart>>
    ELSE /\ Len(charts) < MaxCharts
         /\ charts' = Append(Destroy(charts, currentChart),
                             [canvasId |-> canvasId, destroyed |-> FALSE,
                              data |-> ChartData(data)])
         /\ currentChart' = Len(charts) + 1
         /\ chartCall' = [canvasId |-> canvasId, outcome |-> "returned"]

\* A driver falls by DriverSize, stays, or rises by DriverSize.
DriverVals == {0 - DriverSize, 0, DriverSize}

StartVals == (-1)..StartMax

DriverKeys ==
    << "payer_mix", "allowed_rates", "units_per_visit", "cpt_mix", "copay_leakage",
       "writeoffs_denials", "operational_leakage", "documentation_issues" >>

Drivers ==
    [payer_mix : DriverVals, allowed_rates : DriverVals, units_per_visit : DriverVals,
     cpt_mix : DriverVals, copay_leakage : DriverVals, writeoffs_denials : DriverVals,
     operational_leakage : DriverVals, documentation_issues : DriverVals]

RECURSIVE SumDrivers(_, _)
\* The sum of the first k drivers in canonical order.
SumDrivers(drivers, k) ==
    IF k = 0 THEN 0 ELSE SumDrivers(drivers, k - 1) + drivers[DriverKeys[k]]

\* Integer-valued decompositions whose end rate is the start rate plus the
\* drivers, or off by up to EndSkew.
Decompositions ==
    { [start_net_rate |-> s, end_net_rate |-> s + SumDrivers(d, 8) + k, drivers |-> d] :
        s \in StartVals, d \in Drivers, k \in 0..EndSkew }

Decomposition(s, e, pm, ar) ==
    [start_net_rate |-> s, end_net_rate |-> e,
     drivers |-> [payer_mix |-> pm, allowed_rates |-> ar, units_per_visit |-> 0,
                  cpt_mix |-> 5, copay_leakage |-> -5, writeoffs_denials |-> -10,
                  operational_leakage |-> 0, documentation_issues |-> 10]]

SampleData == {Decomposition(100, 80, -50, 30), Decomposition(-3, 0, 2, 1)}

ChartInit ==
    /\ charts = <<>>
    /\ currentChart = 0
    /\ chartCall = [canvasId |-> 0, outcome |-> "none"]

----------------------------------------------------------------------------
(* Specifications *)
\* The parts of the page a specification leaves alone.
Rest ==
    /\ TabsIdle /\ AlertInit /\ FetchInit /\ ChartInit
    /\ elClass = [el \in Elements |-> FALSE]
    /\ elChildren = [el \in Elements |-> <<"text">>]
    /\ loadCall = [element |-> 0, isLoading |-> FALSE]

Quiet == StoreInit /\ Rest /\ input = Decomposition(100, 80, -50, 30)

InitStore == Quiet

StoreOnly == UNCHANGED <<tabVars, loadVars, alertVars, fetchVars, chartVars>>

NextStore ==
    \/ \E item \in CallerItems : addTrackedItem(item) /\ StoreOnly
    \/ \E id \in RemoveArgs : removeTrackedItem(id) /\ StoreOnly
    \/ Tick /\ StoreOnly

SpecStore == InitStore /\ [][NextStore]_vars

InitTabs == TabsInit /\ Rest /\ input = Decomposition(100, 80, -50, 30)

TabsOnly == UNCHANGED <<loadVars, alertVars, fetchVars, chartVars>>

NextTabs ==
    \/ \E t \in Tabs, item \in CallerItems : TabAddRead(t, item) /\ TabsOnly
    \/ \E t \in Tabs, id \in RemoveArgs : TabRemoveRead(t, id) /\ TabsOnly
    \/ \E t \in Tabs : TabWrite(t) /\ TabsOnly
    \/ Tick /\ UNCHANGED tabVars /\ TabsOnly

SpecTabs == InitTabs /\ [][NextTabs]_vars

InitLoading ==
    /\ StoreInit /\ TabsIdle /\ AlertInit /\ FetchInit /\ ChartInit /\ LoadInit
    /\ input = Decomposition(100, 80, -50, 30)

NextLoading ==
    \E el \in Elements, isLoading \in BOOLEAN :
        /\ setLoadingState(el, isLoading)
        /\ UNCHANGED <<storeVars, tabVars, alertVars, fetchVars, chartVars>>

SpecLoading == InitLoading /\ [][NextLoading]_vars

AlertsOnly == UNCHANGED <<storeVars, tabVars, loadVars, fetchVars, chartVars>>

InitAlerts == Quiet

NextAlerts ==
    \/ \E m \in {FetchFailedMessage, UnexpectedMessage} : showError(m, ByWindow) /\ AlertsOnly
    \/ showSuccess("Saved") /\ AlertsOnly
    \/ \E b \in 1..MaxBanners : Dismiss(b) /\ AlertsOnly
    \/ \E b \in 1..MaxBanners : TimerFire(b) /\ AlertsOnly

SpecAlerts == InitAlerts /\ [][NextAlerts]_vars

\* A timer that is due does run: the event loop is not blocked for ever.
FairSpecAlerts ==
    SpecAlerts /\ \A b \in 1..MaxBanners : WF_vars(TimerFire(b) /\ AlertsOnly)

FetchOnly == UNCHANGED <<storeVars, tabVars, loadVars, chartVars>>

InitFetch == Quiet

NextFetch ==
    \/ \E r \in Requests : apiRequest(r) /\ FetchOnly
    \/ \E r \in Requests : FetchRejects(r) /\ FetchOnly
    \/ \E r \in Requests, status \in Statuses, body \in Bodies :
          FetchResponds(r, status, body) /\ FetchOnly
    \/ \E r \in Requests, readFails \in BOOLEAN : JsonSettles(r, readFails) /\ FetchOnly
    \/ \E b \in 1..MaxBanners : Dismiss(b) /\ UNCHANGED requests /\ FetchOnly
    \/ \E b \in 1..MaxBanners : TimerFire(b) /\ UNCHANGED requests /\ FetchOnly

SpecFetch == InitFetch /\ [][NextFetch]_vars

ChartOnly == UNCHANGED <<storeVars, tabVars, loadVars, alertVars, fetchVars, input>>

InitChart == Quiet

NextChart ==
    \E canvasId \in CanvasIds, data \in SampleData :
        createWaterfallChart(canvasId, data) /\ ChartOnly

SpecChart == InitChart /\ [][NextChart]_vars

InitWaterfall ==
    /\ StoreInit /\ Rest
    /\ input \in Decompositions

\* One render of the decomposition drawn at the start, on the page's first canvas.
NextWaterfall == currentChart = 0 /\ createWaterfallChart(1, input) /\ ChartOnly

SpecWaterfall == InitWaterfall /\ [][NextWaterfall]_vars

----------------------------------------------------------------------------
(* Claims about the tracked-items store, checked under SpecStore *)

IsStamp(v) == v \in {Str(ToISOString(t)) : t \in 0..MaxClock}

\* C3: from an absent store, addTrackedItem then getTrackedItems yields exactly one
\* record, with a non-empty string id and a dateAdded stamp; removeTrackedItem of
\* that id then leaves getTrackedItems empty.
C3_AddThenRemove ==
    /\ FreshAdd(log) =>
          /\ Len(getTrackedItems) = 1
          /\ HasId(getTrackedItems[1])
          /\ TypeOf(getTrackedItems[1]["id"]) = "string"
          /\ getTrackedItems[1]["id"] # Str("")
          /\ "dateAdded" \in DOMAIN getTrackedItems[1]
          /\ IsStamp(getTrackedItems[1]["dateAdded"])
    /\ (log.op = "remove" /\ log.prevFresh /\ Len(log.before) = 1
          /\ log.arg = IdOf(log.before[1])) => getTrackedItems = <<>>

C3_Witness ==
    /\ log.op = "remove" /\ log.prevFresh
    /\ Len(log.before) = 1 /\ log.arg = IdOf(log.before[1])
    /\ localStorage = JsonStringify(<<>>)

\* C4: no two records of the persisted sequence have the same id.
C4_UniqueIds ==
    \A i, j \in 1..Len(getTrackedItems) :
        i # j => IdOf(getTrackedItems[i]) # IdOf(getTrackedItems[j])

Matching(items, id) == {i \in 1..Len(items) : IdOf(items[i]) = id}

\* ret is before without the records at the indices in gone, order kept.
IsRemoval(before, gone, ret) ==
    /\ Len(ret) = Len(before) - Cardinality(gone)
    /\ \E f \in [1..Len(ret) -> (1..Len(before)) \ gone] :
          /\ \A k \in 1..Len(ret) : ret[k] = before[f[k]]
          /\ \A k, l \in 1..Len(ret) : k < l => f[k] < f[l]

\* C8: removeTrackedItem with an id matching no record returns and persists the
\* sequence unchanged; with a matching id exactly the records with that id are
\* removed and the others keep their relative order.
C8_RemoveFrame ==
    log.op = "remove" =>
        /\ Matching(log.before, log.arg) = {} => log.ret = log.before
        /\ IsRemoval(log.before, Matching(log.before, log.arg), log.ret)
        /\ getTrackedItems = log.ret

C8_Witness ==
    /\ log.op = "remove"
    /\ Len(log.before) = 3
    /\ Matching(log.before, log.arg) = {2}
    /\ getTrackedItems = <<log.before[1], log.before[3]>>

----------------------------------------------------------------------------
(* Claim about two tabs, checked under SpecTabs *)

BothDone == \A t \in Tabs : tabPc[t] = "done"

\* Both tabs read the storage before either wrote it.
BothReadFirst ==
    /\ Len(events) = 4
    /\ events[1][2] = "read" /\ events[2][2] = "read"

LastWriter == events[4][1]

\* The two serial executions of the tabs' calls on the store both tabs found.
SerialOutcomes ==
    LET start == ReadItems(tabSnap[1]) IN
    { JsonStringify(ApplyCall(ApplyCall(start, tabOp[1]), tabOp[2])),
      JsonStringify(ApplyCall(ApplyCall(start, tabOp[2]), tabOp[1])) }

\* C10: when both tabs read before either writes, both calls return and the
\* persisted sequence is the last writer's array computed from the stale read
\* (the first writer's change is overwritten); with two additions the result is
\* that of no serial order of the two calls.
C10_LostUpdate ==
    (BothDone /\ BothReadFirst) =>
        /\ tabSnap[1] = tabSnap[2]
        /\ localStorage =
              JsonStringify(ApplyCall(ReadItems(tabSnap[LastWriter]), tabOp[LastWriter]))
        /\ (tabOp[1].op = "add" /\ tabOp[2].op = "add") =>
              localStorage \notin SerialOutcomes

C10_Witness ==
    /\ BothDone /\ BothReadFirst
    /\ tabOp[1].op = "add" /\ tabOp[2].op = "remove"
    /\ localStorage \notin SerialOutcomes
    /\ Len(getTrackedItems) = 2

----------------------------------------------------------------------------
(* Claim about setLoadingState, checked under SpecLoading *)

\* C1: after setLoadingState(el, true), however often it is called in a row, the
\* element has exactly one spinner child.
C1_OneSpinner ==
    (loadCall.element # 0 /\ loadCall.isLoading) => SpinnerCount(loadCall.element) = 1

----------------------------------------------------------------------------
(* Claim about the chart instances, checked under SpecChart *)

Live(canvasId) ==
    {i \in 1..Len(charts) : charts[i].canvasId = canvasId /\ ~charts[i].destroyed}

\* C2: every canvas has at most one live chart, and a chart rendered earlier on a
\* canvas is destroyed once a later one has been created on it.
C2_OneLiveChart ==
    /\ \A canvasId \in Canvases : Cardinality(Live(canvasId)) <= 1
    /\ \A i, j \in 1..Len(charts) :
          (i < j /\ charts[i].canvasId = charts[j].canvasId) => charts[i].destroyed

C2_Witness ==
    /\ Len(charts) = 3
    /\ charts[1].canvasId = charts[3].canvasId
    /\ charts[2].canvasId # charts[1].canvasId
    /\ charts[1].destroyed /\ ~charts[3].destroyed

----------------------------------------------------------------------------
(* Claim about apiRequest, checked under SpecFetch *)

AlertsBy(r) == {b \in 1..Len(banners) : banners[b].by = r}

\* C5: a call that failed (bad status, network failure, unparsable body) has shown
\* exactly one error alert, with the fixed message, and rejects with the failure
\* itself; a call that resolved carries the parsed body and has shown no alert.
C5_FailureAlert ==
    \A r \in Requests :
        /\ requests[r].thrown # NoError => requests[r].pc = "rejected"
        /\ requests[r].pc = "rejected" =>
              /\ Cardinality(AlertsBy(r)) = 1
              /\ \A b \in AlertsBy(r) :
                    /\ banners[b].message = "Failed to load data. Please try again."
                    /\ banners[b].kind = "alert-danger"
              /\ requests[r].thrown # NoError
              /\ requests[r].reason = requests[r].thrown
        /\ requests[r].pc = "resolved" =>
              /\ AlertsBy(r) = {}
              /\ JsonValid(requests[r].body)
              /\ requests[r].value = requests[r].body.json
        /\ requests[r].pc \in {"idle", "fetch", "json"} => AlertsBy(r) = {}

C5_Witness ==
    \E r, q \in Requests :
        /\ requests[r].pc = "rejected"
        /\ requests[r].reason = [name |-> "Error", message |-> "HTTP error! status: 404"]
        /\ Cardinality(AlertsBy(r)) = 1
        /\ requests[q].pc = "resolved"
        /\ Len(requests[q].value) = 1

----------------------------------------------------------------------------
(* Claims about the waterfall segments, checked under SpecWaterfall *)

Rendered == charts[currentChart].data

\* c(i): the start rate plus the first i drivers in canonical order.
Cum(data, i) == data.start_net_rate + SumDrivers(data.drivers, i)

\* C6: segment 0 spans [0, start], driver segment i spans [c(i-1), c(i)], c(8)
\* equals the end rate whenever start plus the drivers equals it, and segment 9
\* spans [0, end] regardless.
C6_Cumulative ==
    currentChart # 0 =>
        /\ Len(Rendered) = 10
        /\ Rendered[1].y = <<0, input.start_net_rate>>
        /\ \A i \in 1..8 : Rendered[i + 1].y = <<Cum(input, i - 1), Cum(input, i)>>
        /\ Cum(input, 8) = input.end_net_rate => Rendered[9].y[2] = input.end_net_rate
        /\ Rendered[10].y = <<0, input.end_net_rate>>

C6_Witness ==
    /\ currentChart # 0
    /\ Cum(input, 8) = input.end_net_rate
    /\ Rendered[9].y[2] = input.end_net_rate
    /\ input.end_net_rate # input.start_net_rate
    /\ input.drivers.payer_mix < 0 /\ input.drivers.cpt_mix > 0

\* C7: a driver segment is "decrease" exactly when its driver is negative and
\* "increase" exactly when it is zero or more; segments 0 and 9 have the anchor
\* colour whatever the sign of the start and end rates.
C7_Colours ==
    currentChart # 0 =>
        /\ \A i \in 1..8 :
              /\ Rendered[i + 1].backgroundColor = "#dc3545" <=> input.drivers[DriverKeys[i]] < 0
              /\ Rendered[i + 1].backgroundColor = "#28a745" <=> input.drivers[DriverKeys[i]] >= 0
        /\ Rendered[1].backgroundColor = "#007bff"
        /\ Rendered[10].backgroundColor = "#007bff"

C7_Witness ==
    /\ currentChart # 0
    /\ input.drivers.payer_mix = 0 /\ Rendered[2].backgroundColor = "#28a745"
    /\ input.drivers.allowed_rates < 0 /\ Rendered[3].backgroundColor = "#dc3545"
    /\ input.start_net_rate < 0 /\ input.end_net_rate < 0

----------------------------------------------------------------------------
(* Claim about the alert banners, checked under FairSpecAlerts *)

Without(children, b) == SelectSeq(children, LAMBDA n : n # b)

TimerFires(b) == banners[b].timer = "pending" /\ banners'[b].timer = "fired"

\* C9: a new banner becomes the first child of the container, above all the
\* others; a banner whose timer has fired is off the page; a timer firing removes
\* its own banner only, and nothing when that banner was dismissed before; and
\* every banner shown is eventually off the page.
C9_Banners ==
    /\ [][Len(banners') > Len(banners) => container' = <<Len(banners')>> \o container]_vars
    /\ [](\A b \in 1..Len(banners) : banners[b].timer = "fired" => ~InContainer(b))
    /\ [][\A b \in 1..Len(banners) :
             TimerFires(b) =>
                 /\ container' = Without(container, b)
                 /\ banners[b].dismissed => container' = container]_vars
    /\ \A b \in 1..MaxBanners :
          (Len(banners) >= b) ~> (Len(banners) >= b /\ ~InContainer(b))

C9_Witness ==
    \E a, b \in 1..Len(banners) :
        /\ banners[b].dismissed /\ banners[b].timer = "fired"
        /\ a > b /\ InContainer(a) /\ banners[a].timer = "pending"
        /\ banners[a].kind # banners[b].kind

====
